---- MODULE Spec2Model ----
(***************************************************************************)
(* A model of the typed value codec of cmd/contract.go                     *)
(* (contractStringToValue, contractValueToString, contractUnpack) and of   *)
(* the base-fee cache of conn/currentbasefee.go (Conn.CurrentBaseFee).     *)
(*                                                                         *)
(* Text is a sequence of one-character strings.  A byte is a number in     *)
(* 0..255.  An integer value is a sign and a normalised sequence of        *)
(* decimal digits (most significant first), so that 64-bit and wider       *)
(* values are exact.  A machine word is a little-endian sequence of bytes. *)
(***************************************************************************)
EXTENDS Integers, Sequences, FiniteSets, TLC

\* ------------------------------------------------------------------ bounds
\* Longest text enumerated exhaustively over Alphabet.
MaxLen == 3
\* Longest dynamic byte sequence / container drawn as a value to render.
MaxElems == 2
\* Most outputs a method of the ABI declares.
MaxOutputs == 2
\* Largest base fee (in Wei) the configuration or the chain gives.
MaxFee == 2
\* Largest fixed byte size handled by the size switch of contractStringToValue.
MaxFixedSize == 32

\* ------------------------------------------------------------- characters
DecChars == <<"0", "1", "2", "3", "4", "5", "6", "7", "8", "9">>
LowerHex == DecChars \o <<"a", "b", "c", "d", "e", "f">>
UpperHex == DecChars \o <<"A", "B", "C", "D", "E", "F">>

IsDigit(c) == \E i \in 1..10 : DecChars[i] = c
DigitVal(c) == (CHOOSE i \in 1..10 : DecChars[i] = c) - 1

\* encoding/hex reverseHexTable: the value of a hex digit, 255 for any other byte.
HexVal(c) ==
    IF \E i \in 1..16 : LowerHex[i] = c
    THEN (CHOOSE i \in 1..16 : LowerHex[i] = c) - 1
    ELSE IF \E i \in 1..16 : UpperHex[i] = c
    THEN (CHOOSE i \in 1..16 : UpperHex[i] = c) - 1
    ELSE 255

\* ------------------------------------------------------------ strings pkg
RECURSIVE TrimLeft(_)
TrimLeft(s) == IF s # <<>> /\ Head(s) = " " THEN TrimLeft(Tail(s)) ELSE s

RECURSIVE TrimRight(_)
TrimRight(s) ==
    IF s # <<>> /\ s[Len(s)] = " " THEN TrimRight(SubSeq(s, 1, Len(s) - 1)) ELSE s

\* strings.Trim(val, " ")
Trim(s) == TrimRight(TrimLeft(s))

\* strings.TrimPrefix(val, "0x")
TrimPrefix0x(s) ==
    IF Len(s) >= 2 /\ s[1] = "0" /\ s[2] = "x" THEN SubSeq(s, 3, Len(s)) ELSE s

\* strings.Join(res, ",")
RECURSIVE Join(_)
Join(ss) ==
    IF ss = <<>> THEN <<>>
    ELSE IF Len(ss) = 1 THEN ss[1]
    ELSE ss[1] \o <<",">> \o Join(Tail(ss))

\* --------------------------------------------------------- encoding/hex
\* hex.Decode: the bytes decoded before the first error, and the error ("nil"
\* when the whole text decoded).  A bad digit is reported at its pair; an odd
\* length after the complete pairs, unless the last character is a bad digit.
RECURSIVE HexDecodeFrom(_, _)
HexDecodeFrom(s, j) ==
    IF j > Len(s)
    THEN [bytes |-> <<>>,
          err   |-> IF Len(s) % 2 = 0 THEN "nil"
                    ELSE IF HexVal(s[Len(s)]) > 15 THEN "hex.InvalidByteError"
                    ELSE "hex.ErrLength"]
    ELSE IF HexVal(s[j - 1]) > 15 \/ HexVal(s[j]) > 15
    THEN [bytes |-> <<>>, err |-> "hex.InvalidByteError"]
    ELSE LET rest == HexDecodeFrom(s, j + 2)
         IN  [bytes |-> <<HexVal(s[j - 1]) * 16 + HexVal(s[j])>> \o rest.bytes,
              err   |-> rest.err]

\* hex.DecodeString
HexDecodeString(s) == HexDecodeFrom(s, 2)

\* hex.EncodeToString: two lowercase digits per byte.
RECURSIVE HexEncodeToString(_)
HexEncodeToString(bs) ==
    IF bs = <<>> THEN <<>>
    ELSE <<LowerHex[(Head(bs) \div 16) + 1], LowerHex[(Head(bs) % 16) + 1]>>
         \o HexEncodeToString(Tail(bs))

\* --------------------------------------------------------------- math/big
\* Strip leading zeros of a digit sequence; zero is <<0>>.
RECURSIVE Normalise(_)
Normalise(ds) ==
    IF Len(ds) > 1 /\ Head(ds) = 0 THEN Normalise(Tail(ds)) ELSE ds

BigInt(neg, ds) ==
    LET n == Normalise(ds) IN [neg |-> neg /\ n # <<0>>, digits |-> n]

\* big.Int.SetString(val, 10): an optional sign, then one or more decimal digits.
SetString(s) ==
    LET signed == s # <<>> /\ Head(s) \in {"+", "-"}
        body   == IF signed THEN Tail(s) ELSE s
    IN  IF body = <<>> \/ \E i \in 1..Len(body) : ~IsDigit(body[i])
        THEN [ok |-> FALSE, x |-> BigInt(FALSE, <<0>>)]
        ELSE [ok |-> TRUE,
              x  |-> BigInt(signed /\ Head(s) = "-",
                            [i \in 1..Len(body) |-> DigitVal(body[i])])]

\* word*m + c truncated to the word's length (little-endian bytes).
RECURSIVE MulAdd(_, _, _)
MulAdd(w, m, c) ==
    IF w = <<>> THEN <<>>
    ELSE LET t == Head(w) * m + c
         IN  <<t % 256>> \o MulAdd(Tail(w), m, t \div 256)

RECURSIVE DecToWord(_, _)
DecToWord(ds, acc) ==
    IF ds = <<>> THEN acc ELSE DecToWord(Tail(ds), MulAdd(acc, 10, Head(ds)))

ZeroWord(n) == [i \in 1..n |-> 0]

\* big.Int.Uint64(): low64(x.abs), the low 64 bits of the magnitude; the sign
\* is not looked at.
Uint64(x) == DecToWord(x.digits, ZeroWord(8))

\* A word divided by ten, from its most significant byte down.
RECURSIVE DivTen(_, _)
DivTen(w, i) ==
    IF i = 0 THEN [q |-> <<>>, r |-> 0]
    ELSE LET hi  == DivTen(w, i - 1)
             cur == hi.r * 256 + w[Len(w) + 1 - i]
         IN  [q |-> <<cur \div 10>> \o hi.q, r |-> cur % 10]

RECURSIVE WordToDec(_)
WordToDec(w) ==
    IF w = ZeroWord(Len(w)) THEN <<>>
    ELSE LET d == DivTen(w, Len(w)) IN WordToDec(d.q) \o <<d.r>>

\* Two's complement negation of a word.
NegWord(w) == MulAdd([i \in 1..Len(w) |-> 255 - w[i]], 1, 1)

\* Go conversion uintN(u): the low n bytes of u read as an unsigned number.
ToUnsigned(u, n) ==
    LET w == SubSeq(u, 1, n) IN BigInt(FALSE, <<0>> \o WordToDec(w))

\* Go conversion intN(u): the low n bytes of u read in two's complement.
ToSigned(u, n) ==
    LET w == SubSeq(u, 1, n)
    IN  IF w[n] >= 128
        THEN BigInt(TRUE, <<0>> \o WordToDec(NegWord(w)))
        ELSE BigInt(FALSE, <<0>> \o WordToDec(w))

\* ------------------------------------------------- go-ethereum common pkg
\* common.FromHex: drop a 0x or 0X prefix, left-pad an odd length with "0",
\* then common.Hex2Bytes, which drops the decoding error and keeps the bytes
\* decoded before it.
FromHex(s) ==
    LET t == IF Len(s) >= 2 /\ s[1] = "0" /\ s[2] \in {"x", "X"}
             THEN SubSeq(s, 3, Len(s)) ELSE s
        u == IF Len(t) % 2 = 1 THEN <<"0">> \o t ELSE t
    IN  HexDecodeString(u).bytes

\* Address.SetBytes / Hash.SetBytes: keep the last n bytes, right-aligned.
SetBytes(b, n) ==
    LET c == IF Len(b) > n THEN SubSeq(b, Len(b) - n + 1, Len(b)) ELSE b
    IN  [i \in 1..n |-> IF i <= n - Len(c) THEN 0 ELSE c[i - (n - Len(c))]]

\* common.HexToAddress
HexToAddress(s) == SetBytes(FromHex(s), 20)

\* common.HexToHash
HexToHash(s) == SetBytes(FromHex(s), 32)

\* Stand-in for digit i of the Keccak-256 digest of the lowercase hex text that
\* Address.Hex uses to pick the case of each letter (EIP-55).
ChecksumNibble(hexText, i) ==
    (HexVal(hexText[i]) * 7 + HexVal(hexText[Len(hexText) + 1 - i]) * 3 + i) % 16

\* Address.Hex: "0x" and the 40 hex digits, a letter in upper case where the
\* digest digit is above 7.
AddressHex(bytes) ==
    LET low == HexEncodeToString(bytes)
    IN  <<"0", "x">> \o
        [i \in 1..Len(low) |->
            IF HexVal(low[i]) > 9 /\ ChecksumNibble(low, i) > 7
            THEN UpperHex[HexVal(low[i]) + 1] ELSE low[i]]

\* Hash.Hex: hexutil.Encode
HashHex(bytes) == <<"0", "x">> \o HexEncodeToString(bytes)

\* ------------------------------------------------------- type descriptors
\* abi.Type: T the kind, Size the bit width / byte size / array length,
\* Elem the element type of a slice or array (<<>> when nil).
Type(t, size) == [T |-> t, Size |-> size, Elem |-> <<>>]
Container(t, size, elem) == [T |-> t, Size |-> size, Elem |-> <<elem>>]

Nil == [go |-> "nil"]
Ok(v) == [status |-> "ok", value |-> v, error |-> "nil"]
Fail(e) == [status |-> "error", value |-> Nil, error |-> e]
Panic(e) == [status |-> "panic", value |-> Nil, error |-> e]

\* --------------------------------------------------- contractStringToValue
\* case abi.IntTy
ParseInt(argType, val) ==
    LET res == SetString(val)
    IN  IF ~res.ok THEN Fail("Bad integer")
        ELSE IF argType.Size = 8  THEN Ok([go |-> "int8"] @@ ToSigned(Uint64(res.x), 1))
        ELSE IF argType.Size = 16 THEN Ok([go |-> "int16"] @@ ToSigned(Uint64(res.x), 2))
        ELSE IF argType.Size = 32 THEN Ok([go |-> "int32"] @@ ToSigned(Uint64(res.x), 4))
        ELSE IF argType.Size = 64 THEN Ok([go |-> "int64"] @@ ToSigned(Uint64(res.x), 8))
        ELSE Ok([go |-> "big.Int"] @@ res.x)

\* ParseUint as a range-checking parser would be: a value that does not fit the
\* width is an overflow error instead of being truncated.
ParseUintChecked(argType, val) ==
    LET res == SetString(val)
        n   == argType.Size \div 8
    IN  IF ~res.ok THEN Fail("Bad integer")
        ELSE IF argType.Size \in {8, 16, 32, 64}
        THEN IF res.x.neg \/ ToUnsigned(DecToWord(res.x.digits, ZeroWord(9)), 9)
                              # ToUnsigned(Uint64(res.x), n)
             THEN Fail("overflow")
             ELSE Ok([go |-> "uint"] @@ ToUnsigned(Uint64(res.x), n))
        ELSE Ok([go |-> "big.Int"] @@ res.x)

\* case abi.UintTy
ParseUint(argType, val) ==
    LET res == SetString(val)
    IN  IF ~res.ok THEN Fail("Bad integer")
        ELSE IF argType.Size = 8  THEN Ok([go |-> "uint8"] @@ ToUnsigned(Uint64(res.x), 1))
        ELSE IF argType.Size = 16 THEN Ok([go |-> "uint16"] @@ ToUnsigned(Uint64(res.x), 2))
        ELSE IF argType.Size = 32 THEN Ok([go |-> "uint32"] @@ ToUnsigned(Uint64(res.x), 4))
        ELSE IF argType.Size = 64 THEN Ok([go |-> "uint64"] @@ ToUnsigned(Uint64(res.x), 8))
        ELSE Ok([go |-> "big.Int"] @@ res.x)

\* ParseBool as a case-insensitive parser would be.
ParseBoolAnyCase(val) ==
    IF val = <<"1">>
       \/ (Len(val) = 4 /\ val[1] \in {"t", "T"} /\ val[2] \in {"r", "R"}
           /\ val[3] \in {"u", "U"} /\ val[4] \in {"e", "E"})
    THEN Ok([go |-> "bool", b |-> TRUE])
    ELSE Ok([go |-> "bool", b |-> FALSE])

\* case abi.BoolTy
ParseBool(val) ==
    IF val = <<"t", "r", "u", "e">> \/ val = <<"T", "r", "u", "e">> \/ val = <<"1">>
    THEN Ok([go |-> "bool", b |-> TRUE])
    ELSE Ok([go |-> "bool", b |-> FALSE])

\* case abi.AddressTy
ParseAddress(val) == Ok([go |-> "common.Address", bytes |-> HexToAddress(val)])

\* case abi.HashTy
ParseHash(val) == Ok([go |-> "common.Hash", bytes |-> HexToHash(val)])

\* case abi.BytesTy: the result pair of hex.DecodeString as it is.
ParseBytes(val) ==
    LET d == HexDecodeString(TrimPrefix0x(val))
    IN  [status |-> IF d.err = "nil" THEN "ok" ELSE "error",
         value  |-> [go |-> "[]byte", bytes |-> d.bytes],
         error  |-> d.err]

\* ParseFixedBytes with the copy at the left end of the buffer.
ParseFixedBytesLeft(argType, val) ==
    LET d == HexDecodeString(TrimPrefix0x(val))
        n == argType.Size
        k == Len(d.bytes)
    IN  IF n < 0 THEN Panic("makeslice: len out of range")
        ELSE IF d.err = "nil" /\ n - k < 0 THEN Panic("slice bounds out of range")
        ELSE IF n \in 1..MaxFixedSize
        THEN Ok([go    |-> "array",
                 bytes |-> [i \in 1..n |->
                              IF d.err = "nil" /\ i <= k THEN d.bytes[i] ELSE 0]])
        ELSE Fail("Invalid byte size")

\* case abi.FixedBytesTy: make, decode, the guarded copy into the right end of
\* the buffer, then the switch over the sizes 1..32.
ParseFixedBytes(argType, val) ==
    LET d == HexDecodeString(TrimPrefix0x(val))
        n == argType.Size
        k == Len(d.bytes)
    IN  IF n < 0 THEN Panic("makeslice: len out of range")
        ELSE IF d.err = "nil" /\ n - k < 0 THEN Panic("slice bounds out of range")
        ELSE IF n \in 1..MaxFixedSize
        THEN Ok([go    |-> "array",
                 bytes |-> [i \in 1..n |->
                              IF d.err = "nil" /\ i > n - k THEN d.bytes[i - (n - k)]
                              ELSE 0]])
        ELSE Fail("Invalid byte size")

\* The value the FixedBytes case leaves in the package-level err: the decoding
\* error is assigned before the copy, so also when the copy then panics.
FixedBytesErr(argType, val) ==
    IF argType.Size < 0 THEN "unwritten"
    ELSE HexDecodeString(TrimPrefix0x(val)).err

contractStringToValue(argType, text) ==
    LET val == Trim(text)
    IN  CASE argType.T = "IntTy"        -> ParseInt(argType, val)
          [] argType.T = "UintTy"       -> ParseUint(argType, val)
          [] argType.T = "BoolTy"       -> ParseBool(val)
          [] argType.T = "StringTy"     -> Ok([go |-> "string", s |-> val])
          [] argType.T = "SliceTy"      -> Fail("Unhandled type slice")
          [] argType.T = "ArrayTy"      -> Fail("Unhandled type array")
          [] argType.T = "AddressTy"    -> ParseAddress(val)
          [] argType.T = "FixedBytesTy" -> ParseFixedBytes(argType, val)
          [] argType.T = "BytesTy"      -> ParseBytes(val)
          [] argType.T = "HashTy"       -> ParseHash(val)
          [] argType.T = "FixedPointTy" -> Fail("Unhandled type")
          [] argType.T = "FunctionTy"   -> Fail("Unhandled type")
          [] OTHER                      -> Fail("Unknown type")

\* The package-level err after a call of contractStringToValue that found it
\* holding e: only the FixedBytes case assigns it.
ErrAfterStringToValue(argType, text, e) ==
    IF argType.T = "FixedBytesTy" /\ FixedBytesErr(argType, Trim(text)) # "unwritten"
    THEN FixedBytesErr(argType, Trim(text))
    ELSE e

\* --------------------------------------------------- contractValueToString
Text(s) == [status |-> "ok", text |-> s, error |-> "nil"]
NoText(e) == [status |-> "error", text |-> <<>>, error |-> e]

\* fmt.Sprintf("%v", val) of an integer: base 10, "-" before a negative one.
FormatInt(v) ==
    (IF v.neg THEN <<"-">> ELSE <<>>) \o [i \in 1..Len(v.digits) |-> DecChars[v.digits[i] + 1]]

\* The loop over the elements of a slice or array: the rendered elements, or
\* the first error.
RECURSIVE contractValueToString(_, _)
RECURSIVE RenderElems(_, _)
RenderElems(elemType, elems) ==
    IF elems = <<>> THEN [status |-> "ok", texts |-> <<>>, error |-> "nil"]
    ELSE LET elemRes == contractValueToString(elemType, Head(elems))
         IN  IF elemRes.status # "ok"
             THEN [status |-> "error", texts |-> <<>>, error |-> elemRes.error]
             ELSE LET rest == RenderElems(elemType, Tail(elems))
                  IN  IF rest.status # "ok" THEN rest
                      ELSE [rest EXCEPT !.texts = <<elemRes.text>> \o @]

\* RenderContainer with a space after each separating comma.
RenderContainerSpaced(argType, val) ==
    LET res == RenderElems(argType.Elem[1], val.elems)
        sp  == [i \in 1..Len(res.texts) |->
                   IF i = 1 THEN res.texts[i] ELSE <<" ">> \o res.texts[i]]
    IN  IF res.status # "ok" THEN NoText(res.error)
        ELSE Text(<<"[">> \o Join(sp) \o <<"]">>)

\* case abi.SliceTy / case abi.ArrayTy
RenderContainer(argType, val) ==
    LET res == RenderElems(argType.Elem[1], val.elems)
    IN  IF res.status # "ok" THEN NoText(res.error)
        ELSE Text(<<"[">> \o Join(res.texts) \o <<"]">>)

\* case abi.FixedBytesTy
RenderFixedBytes(val) == Text(<<"0", "x">> \o HexEncodeToString(val.bytes))

contractValueToString(argType, val) ==
    CASE argType.T = "IntTy"        -> Text(FormatInt(val))
      [] argType.T = "UintTy"       -> Text(FormatInt(val))
      [] argType.T = "BoolTy"       -> IF val.b = TRUE THEN Text(<<"t", "r", "u", "e">>)
                                       ELSE Text(<<"f", "a", "l", "s", "e">>)
      [] argType.T = "StringTy"     -> Text(val.s)
      [] argType.T = "SliceTy"      -> RenderContainer(argType, val)
      [] argType.T = "ArrayTy"      -> RenderContainer(argType, val)
      [] argType.T = "AddressTy"    -> Text(AddressHex(val.bytes))
      [] argType.T = "FixedBytesTy" -> RenderFixedBytes(val)
      [] argType.T = "BytesTy"      -> Text(<<"0", "x">> \o HexEncodeToString(val.bytes))
      [] argType.T = "HashTy"       -> Text(HashHex(val.bytes))
      [] argType.T = "FixedPointTy" -> NoText("Unhandled type")
      [] argType.T = "FunctionTy"   -> NoText("Unhandled type")
      [] OTHER                      -> NoText("Unknown type")

\* ------------------------------------------------------------ input sets
SeqsUpTo(S, n) == UNION {[1..k -> S] : k \in 0..n}

\* Characters of the exhaustively enumerated texts: digits, a sign, the hex
\* prefix letter, hex letters of both cases, a non-hex letter and the space.
Alphabet == {"0", "1", "x", "a", "B", "g", " ", "-"}

Repeat(c, n) == [i \in 1..n |-> c]

\* Longer texts: the literals of the documented cases and the width boundaries.
Samples ==
    { <<"t", "r", "u", "e">>, <<"T", "r", "u", "e">>, <<"T", "R", "U", "E">>,
      <<"y", "e", "s">>, <<" ", "t", "r", "u", "e", " ">>, <<" ", "1", " ">>,
      <<"f", "a", "l", "s", "e">>, <<"t", "r", "u", "e", "x">>,
      <<"3", "0", "0">>, <<"2", "0", "0">>, <<"-", "1", "2", "8">>, <<"-", "5">>,
      <<"+", "7">>, <<"1", "2", "a">>, <<"1", " ", "2">>, <<" ", "3", "0", "0", " ">>,
      <<"6", "5", "5", "3", "6">>, <<"4", "0", "0", "0", "0">>,
      <<"2", "1", "4", "7", "4", "8", "3", "6", "4", "8">>,
      <<"4", "2", "9", "4", "9", "6", "7", "2", "9", "7">>,
      <<"9", "2", "2", "3", "3", "7", "2", "0", "3", "6", "8", "5", "4", "7", "7", "5", "8", "0", "8">>,
      <<"1", "8", "4", "4", "6", "7", "4", "4", "0", "7", "3", "7", "0", "9", "5", "5", "1", "6", "1", "7">>,
      <<"-", "1", "8", "4", "4", "6", "7", "4", "4", "0", "7", "3", "7", "0", "9", "5", "5", "1", "6", "1", "7">>,
      <<"0", "x", "a", "b">>, <<"0", "x", "A", "B", "c", "d">>, <<"a", "b", "c", "d">>,
      <<"0", "x", "z", "z">>, <<"0", "x", "a", "b", "c">>, <<" ", "0", "x", "a", "b", " ">>,
      <<"0", "x", "0", "0", "0", "0", "0", "0", "a", "b">>, <<"0", "X", "a", "b">>,
      <<"a", "b", "z", "z">>, <<"0", "x", "a", "b", "0", "1", "f", "F">>,
      <<"0", "x">> \o Repeat("a", 40), <<"0", "x", "1", "2">> \o Repeat("c", 40),
      <<"0", "x">> \o Repeat("7", 64), <<"0", "x">> \o Repeat("e", 66),
      <<"[", "1", ",", "2", "]">>, <<"[", "]">> }

Texts == SeqsUpTo(Alphabet, MaxLen) \cup Samples

ElemTypes ==
    { Type("UintTy", 8), Type("IntTy", 8), Type("BoolTy", 0), Type("StringTy", 0),
      Type("FixedBytesTy", 2), Type("FixedPointTy", 0), Type("FunctionTy", 0),
      Container("SliceTy", 0, Type("UintTy", 8)),
      Container("SliceTy", 0, Type("FixedPointTy", 0)) }

Descriptors ==
    {Type(t, w) : t \in {"IntTy", "UintTy"}, w \in {8, 16, 32, 64, 256}}
    \cup {Type(t, 0) : t \in {"BoolTy", "StringTy", "AddressTy", "BytesTy", "HashTy",
                              "FixedPointTy", "FunctionTy", "TupleTy"}}
    \cup {Type("FixedBytesTy", n) : n \in 1..(MaxFixedSize + 1)}
    \cup {Container("SliceTy", 0, e) : e \in ElemTypes}
    \cup {Container("ArrayTy", n, e) : n \in 0..MaxElems, e \in ElemTypes}

\* --------------------------------------------------------- typed values
RECURSIVE NatDigits(_)
NatDigits(n) == IF n < 10 THEN <<n>> ELSE NatDigits(n \div 10) \o <<n % 10>>

IntVal(n) == IF n < 0 THEN BigInt(TRUE, NatDigits(0 - n)) ELSE BigInt(FALSE, NatDigits(n))

\* The Go type contractStringToValue gives an integer of this width.
GoInt(t, w) ==
    IF w \in {8, 16, 32, 64}
    THEN (IF t = "IntTy" THEN "int" ELSE "uint") \o
         (CASE w = 8 -> "8" [] w = 16 -> "16" [] w = 32 -> "32" [] w = 64 -> "64")
    ELSE "big.Int"

\* Integers representable at a width: all of them at 8 bits, the boundaries
\* and a few inner values at the wider ones.
IntValues(t, w) ==
    LET two63 == <<9, 2, 2, 3, 3, 7, 2, 0, 3, 6, 8, 5, 4, 7, 7, 5, 8, 0, 8>>
        max63 == <<9, 2, 2, 3, 3, 7, 2, 0, 3, 6, 8, 5, 4, 7, 7, 5, 8, 0, 7>>
        max64 == <<1, 8, 4, 4, 6, 7, 4, 4, 0, 7, 3, 7, 0, 9, 5, 5, 1, 6, 1, 5>>
        two64 == <<1, 8, 4, 4, 6, 7, 4, 4, 0, 7, 3, 7, 0, 9, 5, 5, 1, 6, 1, 6>>
        two31 == <<2, 1, 4, 7, 4, 8, 3, 6, 4, 8>>
        max32 == <<4, 2, 9, 4, 9, 6, 7, 2, 9, 5>>
    IN  CASE t = "IntTy" /\ w = 8   -> {IntVal(n) : n \in -128..127}
          [] t = "IntTy" /\ w = 16  -> {IntVal(n) : n \in {-32768, -300, -1, 0, 1, 300, 32767}}
          [] t = "IntTy" /\ w = 32  ->
                {IntVal(n) : n \in {-40000, -1, 0, 40000, 2147483647}}
                \cup {BigInt(TRUE, two31)}
          [] t = "IntTy" /\ w = 64  ->
                {IntVal(n) : n \in {-1, 0, 2147483647}}
                \cup {BigInt(TRUE, two63), BigInt(FALSE, max63), BigInt(FALSE, max32)}
          [] t = "IntTy"            ->
                {IntVal(n) : n \in {-1, 0, 300}}
                \cup {BigInt(TRUE, two64), BigInt(FALSE, two64)}
          [] t = "UintTy" /\ w = 8  -> {IntVal(n) : n \in 0..255}
          [] t = "UintTy" /\ w = 16 -> {IntVal(n) : n \in {0, 1, 255, 256, 65535}}
          [] t = "UintTy" /\ w = 32 ->
                {IntVal(n) : n \in {0, 65536}} \cup {BigInt(FALSE, max32)}
          [] t = "UintTy" /\ w = 64 ->
                {IntVal(n) : n \in {0, 65536}} \cup {BigInt(FALSE, two63), BigInt(FALSE, max64)}
          [] OTHER                  -> {IntVal(n) : n \in {0, 300}} \cup {BigInt(FALSE, two64)}

ByteSamples == {0, 10, 171, 255}

\* Byte arrays of a fixed length: every first and last byte, two fillers.
FixedSamples(n) ==
    IF n <= MaxElems THEN [1..n -> ByteSamples]
    ELSE {[i \in 1..n |-> IF i = 1 THEN a ELSE IF i = n THEN b ELSE c] :
            a \in ByteSamples, b \in ByteSamples, c \in {0, 171}}

Opaque == [go |-> "opaque"]

\* A few values of an element type, for the containers.
RECURSIVE SmallValues(_)
SmallValues(d) ==
    CASE d.T = "UintTy"       -> {[go |-> GoInt(d.T, d.Size)] @@ IntVal(n) : n \in {1, 2}}
      [] d.T = "IntTy"        -> {[go |-> GoInt(d.T, d.Size)] @@ IntVal(n) : n \in {-5, 44}}
      [] d.T = "BoolTy"       -> {[go |-> "bool", b |-> b] : b \in BOOLEAN}
      [] d.T = "StringTy"     -> {[go |-> "string", s |-> s] : s \in {<<>>, <<"a", " ">>}}
      [] d.T = "FixedBytesTy" -> {[go |-> "array", bytes |-> <<0, 171>>]}
      [] d.T = "SliceTy"      ->
            {[go |-> "slice", elems |-> es] : es \in SeqsUpTo(SmallValues(d.Elem[1]), 1)}
      [] OTHER                -> {Opaque}

\* The values drawn as input of contractValueToString at a descriptor.
Values(d) ==
    CASE d.T \in {"IntTy", "UintTy"} ->
            {[go |-> GoInt(d.T, d.Size)] @@ v : v \in IntValues(d.T, d.Size)}
      [] d.T = "BoolTy"       -> {[go |-> "bool", b |-> b] : b \in BOOLEAN}
      [] d.T = "StringTy"     -> {[go |-> "string", s |-> s] : s \in Texts}
      [] d.T = "AddressTy"    -> {[go |-> "common.Address", bytes |-> b] : b \in FixedSamples(20)}
      [] d.T = "HashTy"       -> {[go |-> "common.Hash", bytes |-> b] : b \in FixedSamples(32)}
      [] d.T = "BytesTy"      -> {[go |-> "[]byte", bytes |-> b] : b \in SeqsUpTo(ByteSamples, MaxElems)}
      [] d.T = "FixedBytesTy" -> {[go |-> "array", bytes |-> b] : b \in FixedSamples(d.Size)}
      [] d.T = "SliceTy"      ->
            {[go |-> "slice", elems |-> es] : es \in SeqsUpTo(SmallValues(d.Elem[1]), MaxElems)}
      [] d.T = "ArrayTy"      ->
            {[go |-> "array", elems |-> es] : es \in [1..d.Size -> SmallValues(d.Elem[1])]}
      [] OTHER                -> {Opaque}

\* ---------------------------------------------------------- contractUnpack
\* Whether reflect.Type.Elem() is defined for the Go type of an output: it is
\* for arrays, slices and pointers (*big.Int), and panics for the other kinds.
HasElem(t) ==
    \/ t.T \in {"AddressTy", "HashTy", "FixedBytesTy", "BytesTy", "SliceTy", "ArrayTy",
                "FunctionTy"}
    \/ t.T \in {"IntTy", "UintTy"} /\ t.Size \notin {8, 16, 32, 64}

\* One destination of the decoder: the type it was allocated from (the output's
\* own type, or that type's element type) and whether the decoder has filled it.
Dest(t, how, filled) == [type |-> t, alloc |-> how, filled |-> filled]

\* abi.Unpack, the external decoder: it fails on an empty blob when outputs are
\* expected, and otherwise succeeds or fails as `decodes` says.
DecoderErr(data, decodes) ==
    IF data = <<>> \/ ~decodes THEN "abi: cannot unmarshal" ELSE "nil"

\* contractUnpack without the early return for a method without outputs: the
\* decoder is invoked on an empty destination list.
contractUnpackNoEarlyReturn(abi, name, data, decodes) ==
    IF name \notin DOMAIN abi
    THEN [status |-> "error", isNil |-> TRUE, result |-> <<>>,
          error |-> "The method does not exist", calls |-> 0]
    ELSE LET outputs == abi[name]
             e       == IF ~decodes THEN "abi: cannot unmarshal" ELSE "nil"
         IN  [status |-> IF e = "nil" THEN "ok" ELSE "error", isNil |-> FALSE,
              result |-> [i \in 1..Len(outputs) |-> Dest(outputs[i], "type", e = "nil")],
              error |-> e, calls |-> 1]

\* contractUnpack: the result sequence (nil when the method is missing), the
\* error, and how often the decoder was invoked.
contractUnpack(abi, name, data, decodes) ==
    IF name \notin DOMAIN abi
    THEN [status |-> "error", isNil |-> TRUE, result |-> <<>>,
          error |-> "The method does not exist", calls |-> 0]
    ELSE LET outputs == abi[name]
             e       == DecoderErr(data, decodes)
         IN  IF Len(outputs) = 0
             THEN [status |-> "ok", isNil |-> FALSE, result |-> <<>>, error |-> "nil",
                   calls |-> 0]
             ELSE IF Len(outputs) = 1
             THEN [status |-> IF e = "nil" THEN "ok" ELSE "error", isNil |-> FALSE,
                   result |-> <<Dest(outputs[1], "type", e = "nil")>>,
                   error |-> e, calls |-> 1]
             ELSE IF \E i \in 1..Len(outputs) : ~HasElem(outputs[i])
             THEN [status |-> "panic", isNil |-> TRUE, result |-> <<>>,
                   error |-> "reflect: Elem of invalid type", calls |-> 0]
             ELSE [status |-> IF e = "nil" THEN "ok" ELSE "error", isNil |-> FALSE,
                   result |-> [i \in 1..Len(outputs) |-> Dest(outputs[i], "elem", e = "nil")],
                   error |-> e, calls |-> 1]

\* ---------------------------------------------------- Conn.CurrentBaseFee
NoFee == [set |-> FALSE, wei |-> 0]
Fee(n) == [set |-> TRUE, wei |-> n]

\* string2eth.StringToWei of the configured text: the amount, or nil and an error.
StringToWei(cfg) ==
    IF cfg.valid THEN [fee |-> Fee(cfg.wei), err |-> "nil"]
    ELSE [fee |-> NoFee, err |-> "failed to parse"]

\* CurrentBaseFee reading the configuration on every call without a client,
\* whether or not a fee is cached.
CurrentBaseFeeNoCacheCheck(hasClient, cache, cfg, blockNumberOk, blockOk, chainFee) ==
    IF ~hasClient
    THEN LET r == StringToWei(cfg)
         IN  IF r.err # "nil"
             THEN [fee |-> NoFee, err |-> r.err, cache |-> r.fee]
             ELSE [fee |-> r.fee, err |-> "nil", cache |-> r.fee]
    ELSE IF ~blockNumberOk THEN [fee |-> NoFee, err |-> "BlockNumber failed", cache |-> cache]
    ELSE IF ~blockOk THEN [fee |-> NoFee, err |-> "BlockByNumber failed", cache |-> cache]
    ELSE IF cache.set THEN [fee |-> cache, err |-> "nil", cache |-> cache]
    ELSE [fee |-> Fee(chainFee), err |-> "nil", cache |-> cache]

\* Conn.CurrentBaseFee: what it returns and what it leaves in c.baseFeePerGas,
\* given the cache, the configuration and the answers of the client's two
\* requests.
CurrentBaseFee(hasClient, cache, cfg, blockNumberOk, blockOk, chainFee) ==
    IF ~hasClient
    THEN IF cache.set
         THEN [fee |-> cache, err |-> "nil", cache |-> cache]
         ELSE LET r == StringToWei(cfg)
              IN  IF r.err # "nil"
                  THEN [fee |-> NoFee, err |-> r.err, cache |-> r.fee]
                  ELSE [fee |-> r.fee, err |-> "nil", cache |-> r.fee]
    ELSE IF ~blockNumberOk THEN [fee |-> NoFee, err |-> "BlockNumber failed", cache |-> cache]
    ELSE IF ~blockOk THEN [fee |-> NoFee, err |-> "BlockByNumber failed", cache |-> cache]
    ELSE IF cache.set THEN [fee |-> cache, err |-> "nil", cache |-> cache]
    ELSE [fee |-> Fee(chainFee), err |-> "nil", cache |-> cache]

\* ------------------------------------------------------------------ state
VARIABLES
    flow,       \* "text": a text is parsed, then shown; "value": a value is rendered, then parsed back
    pc,         \* the call that comes next: "parse", "render", "unpack", "done", "crashed"
    argType,    \* the descriptor of the call
    val,        \* the text given to contractStringToValue in flow "text"
    value,      \* the value given to contractValueToString in flow "value"
    parsed,     \* what contractStringToValue returned
    rendered,   \* what contractValueToString returned
    err,        \* the package-level variable err of package cmd
    methods,    \* abi.Methods: the outputs of each method by name
    name,       \* the method name given to contractUnpack
    data,       \* the raw bytes given to contractUnpack
    unpacked,   \* what contractUnpack returned
    decoderCalls,   \* how often abi.Unpack has been invoked
    client,     \* whether c.client is set
    baseFeePerGas,  \* c.baseFeePerGas, the cached base fee
    config,     \* the configured "base-fee-per-gas"
    feeRet,     \* what the last CurrentBaseFee returned
    lastOp      \* the last step taken on the connection

codecVars == <<flow, pc, argType, val, value, parsed, rendered, err>>
unpackVars == <<methods, name, data, unpacked, decoderCalls>>
feeVars == <<client, baseFeePerGas, config, feeRet, lastOp>>
vars == <<codecVars, unpackVars, feeVars>>

NotParsed == [status |-> "none", value |-> Nil, error |-> "nil"]
NotRendered == [status |-> "none", text |-> <<>>, error |-> "nil"]
NotUnpacked == [status |-> "none", isNil |-> TRUE, result |-> <<>>, error |-> "nil", calls |-> 0]
NoFeeRet == [fee |-> NoFee, err |-> "none"]

\* No codec call is under way.
CodecIdle ==
    /\ flow = "none" /\ argType = Type("BoolTy", 0) /\ val = <<>> /\ value = Nil
    /\ parsed = NotParsed /\ rendered = NotRendered /\ err = "nil"

\* No ABI is loaded and nothing is unpacked.
UnpackIdle ==
    /\ methods = <<>> /\ name = "" /\ data = <<>> /\ unpacked = NotUnpacked
    /\ decoderCalls = 0

\* A fresh connection without a client.
FeeIdle ==
    /\ client = FALSE /\ baseFeePerGas = NoFee /\ config = [valid |-> FALSE, wei |-> 0]
    /\ feeRet = NoFeeRet /\ lastOp = "new"

Init ==
    /\ argType \in Descriptors
    /\ \/ flow = "text" /\ pc = "parse" /\ val \in Texts /\ value = Nil
       \/ flow = "value" /\ pc = "render" /\ val = <<>> /\ value \in Values(argType)
    /\ parsed = NotParsed
    /\ rendered = NotRendered
    /\ err = "nil"
    /\ UnpackIdle
    /\ FeeIdle

\* A call of contractStringToValue: on the given text, or on the text the
\* rendering produced.  A panic ends the process.
StringToValue ==
    /\ pc = "parse"
    /\ LET text == IF flow = "text" THEN val ELSE rendered.text
           r    == contractStringToValue(argType, text)
       IN  /\ parsed' = r
           /\ err' = ErrAfterStringToValue(argType, text, err)
           /\ pc' = IF r.status = "panic" THEN "crashed"
                    ELSE IF flow = "text" /\ r.status = "ok" THEN "render"
                    ELSE "done"
    /\ UNCHANGED <<flow, argType, val, value, rendered, unpackVars, feeVars>>

\* A call of contractValueToString: on the given value, or on the value the
\* parsing produced.
ValueToString ==
    /\ pc = "render"
    /\ LET v == IF flow = "value" THEN value ELSE parsed.value
           r == contractValueToString(argType, v)
       IN  /\ rendered' = r
           /\ pc' = IF flow = "value" /\ r.status = "ok" THEN "parse" ELSE "done"
    /\ UNCHANGED <<flow, argType, val, value, parsed, err, unpackVars, feeVars>>

Next == StringToValue \/ ValueToString

Spec == Init /\ [][Next]_vars

\* The ABIs, method names and blobs given to contractUnpack.
MethodNames == {"get", "set"}
OutTypes == {Type("UintTy", 8), Type("UintTy", 256), Type("AddressTy", 0), Type("BoolTy", 0)}
Abis == UNION {[D -> SeqsUpTo(OutTypes, MaxOutputs)] : D \in SUBSET MethodNames}
Blobs == {<<>>, <<0>>, <<255, 1>>}

InitUnpack ==
    /\ CodecIdle
    /\ pc = "unpack"
    /\ methods \in Abis
    /\ name \in MethodNames \cup {"missing"}
    /\ data \in Blobs
    /\ unpacked = NotUnpacked
    /\ decoderCalls = 0
    /\ FeeIdle

\* A call of contractUnpack; the decoder, when reached, succeeds or fails.
Unpack ==
    /\ pc = "unpack"
    /\ \E decodes \in BOOLEAN :
          LET r == contractUnpack(methods, name, data, decodes)
          IN  /\ unpacked' = r
              /\ decoderCalls' = decoderCalls + r.calls
              /\ pc' = IF r.status = "panic" THEN "crashed" ELSE "done"
    /\ UNCHANGED <<flow, argType, val, value, parsed, rendered, err, methods, name, data,
                   feeVars>>

NextUnpack == Unpack

SpecUnpack == InitUnpack /\ [][NextUnpack]_vars

Configs == {[valid |-> FALSE, wei |-> 0]} \cup {[valid |-> TRUE, wei |-> n] : n \in 0..MaxFee}

InitFee ==
    /\ CodecIdle
    /\ pc = "done"
    /\ UnpackIdle
    /\ client \in BOOLEAN
    /\ baseFeePerGas = NoFee
    /\ config \in Configs
    /\ feeRet = NoFeeRet
    /\ lastOp = "new"

\* A call of CurrentBaseFee; the client's requests succeed or fail, and the
\* chain gives some base fee.
CallCurrentBaseFee ==
    /\ \E blockNumberOk \in BOOLEAN, blockOk \in BOOLEAN, chainFee \in 0..MaxFee :
          LET r == CurrentBaseFee(client, baseFeePerGas, config, blockNumberOk, blockOk,
                                  chainFee)
          IN  /\ feeRet' = [fee |-> r.fee, err |-> r.err]
              /\ baseFeePerGas' = r.cache
    /\ lastOp' = "CurrentBaseFee"
    /\ UNCHANGED <<codecVars, unpackVars, client, config>>

\* The process-wide "base-fee-per-gas" setting is changed between two calls.
SetConfig ==
    /\ \E c \in Configs : c # config /\ config' = c
    /\ lastOp' = "SetConfig"
    /\ UNCHANGED <<codecVars, unpackVars, client, baseFeePerGas, feeRet>>

\* The connection gains or loses its client between two calls.
SetClient ==
    /\ client' = ~client
    /\ lastOp' = "SetClient"
    /\ UNCHANGED <<codecVars, unpackVars, baseFeePerGas, config, feeRet>>

NextFee == CallCurrentBaseFee \/ SetConfig \/ SetClient

SpecFee == InitFee /\ [][NextFee]_vars

\* ------------------------------------------------------------- properties
\* The text between the first and the last character that is not a space.
Core(s) ==
    LET idx == {i \in 1..Len(s) : s[i] # " "}
    IN  IF idx = {} THEN <<>>
        ELSE SubSeq(s, CHOOSE i \in idx : \A j \in idx : i <= j,
                       CHOOSE i \in idx : \A j \in idx : i >= j)

ParseDone == flow = "text" /\ parsed.status # "none"
RenderDone == flow = "value" /\ rendered.status # "none"
RoundTripDone == flow = "value" /\ parsed.status # "none"

ScalarKinds == {"IntTy", "UintTy", "BoolTy", "StringTy", "AddressTy", "BytesTy", "HashTy"}

\* C1: round trip for scalar kinds: rendering a representable value and parsing
\* the text back at the same descriptor succeeds and gives the value again.
C1_RoundTrip ==
    (RoundTripDone /\ argType.T \in ScalarKinds)
        => (parsed.status = "ok" /\ parsed.value = value)

\* C2: contractStringToValue is total: every call returns a value or an error
\* and none aborts.
C2_Total == parsed.status # "panic"

IsHexChar(c) == c \in {LowerHex[i] : i \in 1..16} \cup {UpperHex[i] : i \in 1..16}
Strip0x(s) == IF Len(s) >= 2 /\ SubSeq(s, 1, 2) = <<"0", "x">> THEN SubSeq(s, 3, Len(s)) ELSE s
HasBadHexChar(s) == \E i \in 1..Len(s) : ~IsHexChar(s[i])

\* C3: for Address, FixedBytes (size 1..32) and Bytes, a text that is not
\* hexadecimal after its optional 0x prefix makes the call return an error,
\* never a successful value.
C3_InvalidHexRejected ==
    (/\ ParseDone
     /\ \/ argType.T \in {"AddressTy", "BytesTy"}
        \/ argType.T = "FixedBytesTy" /\ argType.Size \in 1..32
     /\ HasBadHexChar(Strip0x(Core(val))))
        => parsed.status = "error"

\* A decimal digit sequence divided by 256: the quotient's digits and the
\* remainder.
RECURSIVE DivByteFrom(_, _)
DivByteFrom(ds, carry) ==
    IF ds = <<>> THEN [q |-> <<>>, r |-> carry]
    ELSE LET cur  == carry * 10 + Head(ds)
             rest == DivByteFrom(Tail(ds), cur % 256)
         IN  [q |-> <<cur \div 256>> \o rest.q, r |-> rest.r]

\* The n low-order bytes of a decimal number (least significant first) and the
\* digits of what is left above them.
RECURSIVE SplitBytes(_, _)
SplitBytes(ds, n) ==
    IF n = 0 THEN [bytes |-> <<>>, rest |-> ds]
    ELSE LET h  == DivByteFrom(ds, 0)
             hi == SplitBytes(h.q, n - 1)
         IN  [bytes |-> <<h.r>> \o hi.bytes, rest |-> hi.rest]

IsZero(ds) == \A i \in 1..Len(ds) : ds[i] = 0

\* The sum of two byte sequences of one length, truncated to that length.
RECURSIVE AddBytes(_, _, _)
AddBytes(a, b, carry) ==
    IF a = <<>> THEN <<>>
    ELSE LET t == Head(a) + Head(b) + carry
         IN  <<t % 256>> \o AddBytes(Tail(a), Tail(b), t \div 256)

IsBase10(t) ==
    LET body == IF t # <<>> /\ t[1] \in {"+", "-"} THEN Tail(t) ELSE t
    IN  body # <<>> /\ \A i \in 1..Len(body) : body[i] \in {DecChars[k] : k \in 1..10}

\* The magnitude of a base-10 text, digit by digit.
Magnitude(t) ==
    LET body == IF t[1] \in {"+", "-"} THEN Tail(t) ELSE t
    IN  [i \in 1..Len(body) |-> CHOOSE k \in 0..9 : DecChars[k + 1] = body[i]]

\* The value r reads exactly the n bytes `bytes` (low-order first): as an
\* unsigned number, or in two's complement.
ReadsBytes(r, bytes, n, isSigned) ==
    LET mine == SplitBytes(r.digits, n)
    IN  /\ IsZero(mine.rest)
        /\ IF isSigned /\ bytes[n] >= 128
           THEN r.neg /\ AddBytes(mine.bytes, bytes, 0) = [i \in 1..n |-> 0]
           ELSE ~r.neg /\ mine.bytes = bytes

\* C4: integer truncation: a valid base-10 text never fails; at widths 8, 16, 32
\* and 64 the result is the low-order w bits of the unsigned 64-bit
\* representation (big.Int.Uint64: the low 64 bits of the magnitude), above 64 the
\* arbitrary-precision value unmodified; any other text is an error.
C4_IntegerTruncation ==
    (ParseDone /\ argType.T \in {"IntTy", "UintTy"}) =>
        LET t == Core(val)
            w == argType.Size
        IN  IF ~IsBase10(t) THEN parsed.status = "error"
            ELSE /\ parsed.status = "ok"
                 /\ IF w \in {8, 16, 32, 64}
                    THEN /\ parsed.value.go = GoInt(argType.T, w)
                         /\ ReadsBytes(parsed.value,
                                       SubSeq(SplitBytes(Magnitude(t), 8).bytes, 1, w \div 8),
                                       w \div 8, argType.T = "IntTy")
                    ELSE /\ parsed.value.go = "big.Int"
                         /\ parsed.value.neg = (t[1] = "-" /\ ~IsZero(Magnitude(t)))
                         /\ LET m == Magnitude(t)
                                d == parsed.value.digits
                                k == Len(m) - Len(d)
                            IN  /\ k >= 0
                                /\ \A i \in 1..k : m[i] = 0
                                /\ \A i \in 1..Len(d) : d[i] = m[k + i]
                                /\ (Len(d) > 1 => d[1] # 0)

\* UnsignedInt width 8 on "300" has been parsed to 44.
C4_Witness ==
    /\ ParseDone
    /\ argType = Type("UintTy", 8)
    /\ val = <<"3", "0", "0">>
    /\ parsed.status = "ok"
    /\ parsed.value.digits = <<4, 4>>

IsEvenHex(s) == Len(s) % 2 = 0 /\ ~HasBadHexChar(s)
ByteAt(s, i) ==
    LET hv(c) == IF \E k \in 1..16 : LowerHex[k] = c
                 THEN (CHOOSE k \in 1..16 : LowerHex[k] = c) - 1
                 ELSE (CHOOSE k \in 1..16 : UpperHex[k] = c) - 1
    IN  16 * hv(s[2 * i - 1]) + hv(s[2 * i])

\* C5: FixedBytes padding and rendering: at a size n in 1..32 a valid hex text
\* of k <= n bytes parses to exactly n bytes, the last k the decoded ones and the
\* first n-k zero, and that value renders as "0x" and exactly 2n lowercase hex
\* digits.
C5_FixedBytesPadding ==
    (/\ ParseDone
     /\ argType.T = "FixedBytesTy"
     /\ argType.Size \in 1..32
     /\ IsEvenHex(Strip0x(Core(val)))
     /\ Len(Strip0x(Core(val))) \div 2 <= argType.Size) =>
        LET h == Strip0x(Core(val))
            k == Len(h) \div 2
            n == argType.Size
        IN  /\ parsed.status = "ok"
            /\ Len(parsed.value.bytes) = n
            /\ \A i \in 1..(n - k) : parsed.value.bytes[i] = 0
            /\ \A i \in 1..k : parsed.value.bytes[n - k + i] = ByteAt(h, i)
            /\ pc = "done" =>
                /\ rendered.status = "ok"
                /\ Len(rendered.text) = 2 + 2 * n
                /\ SubSeq(rendered.text, 1, 2) = <<"0", "x">>
                /\ \A i \in 1..n :
                      /\ rendered.text[2 * i + 1] = LowerHex[(parsed.value.bytes[i] \div 16) + 1]
                      /\ rendered.text[2 * i + 2] = LowerHex[(parsed.value.bytes[i] % 16) + 1]

\* FixedBytes size 4 on "0xab" has been parsed to 00 00 00 ab and rendered as
\* 0x000000ab.
C5_Witness ==
    /\ ParseDone
    /\ argType = Type("FixedBytesTy", 4)
    /\ val = <<"0", "x", "a", "b">>
    /\ parsed.status = "ok"
    /\ parsed.value.bytes = <<0, 0, 0, 171>>
    /\ rendered.text = <<"0", "x", "0", "0", "0", "0", "0", "0", "a", "b">>

\* Whether a value holds, at any depth, an element of kind FixedPoint or Function.
RECURSIVE HasUnrenderable(_, _)
HasUnrenderable(d, v) ==
    IF d.T \in {"FixedPointTy", "FunctionTy"} THEN TRUE
    ELSE IF d.T \in {"SliceTy", "ArrayTy"}
    THEN \E i \in 1..Len(v.elems) : HasUnrenderable(d.Elem[1], v.elems[i])
    ELSE FALSE

\* Texts laid end to end with a comma between neighbours, built from the right.
RECURSIVE CommaSeparated(_, _)
CommaSeparated(ts, n) ==
    IF n = 0 THEN <<>>
    ELSE IF n = 1 THEN ts[1]
    ELSE CommaSeparated(ts, n - 1) \o <<",">> \o ts[n]

\* C6: container asymmetry: contractStringToValue fails with an Unhandled error
\* at every Slice or Array descriptor; contractValueToString of a container
\* succeeds exactly when no element (at any depth) is of kind FixedPoint or
\* Function, and then yields "[" + the elements rendered with the element
\* descriptor, in order, joined by "," + "]"; an empty container gives "[]".
C6_ContainerAsymmetry ==
    /\ (ParseDone /\ argType.T \in {"SliceTy", "ArrayTy"}) =>
          /\ parsed.status = "error"
          /\ parsed.error \in {"Unhandled type slice", "Unhandled type array"}
    /\ (RenderDone /\ argType.T \in {"SliceTy", "ArrayTy"}) =>
          LET n     == Len(value.elems)
              elems == [i \in 1..n |-> contractValueToString(argType.Elem[1], value.elems[i])]
          IN  /\ (rendered.status = "ok") = ~HasUnrenderable(argType, value)
              /\ rendered.status = "ok" =>
                    /\ \A i \in 1..n : elems[i].status = "ok"
                    /\ rendered.text =
                          <<"[">> \o CommaSeparated([i \in 1..n |-> elems[i].text], n) \o <<"]">>
                    /\ (n = 0 => rendered.text = <<"[", "]">>)

\* The slice [1,2] of UnsignedInt has been rendered as "[1,2]".
C6_Witness ==
    /\ RenderDone
    /\ argType = Container("SliceTy", 0, Type("UintTy", 8))
    /\ Len(value.elems) = 2
    /\ rendered.status = "ok"
    /\ rendered.text = <<"[", "1", ",", "2", "]">>

TrueTexts == {<<"t", "r", "u", "e">>, <<"T", "r", "u", "e">>, <<"1">>}

\* C7: boolean parse leniency: at kind Bool the call never returns an error; the
\* result is true exactly when the text without its surrounding spaces is
\* "true", "True" or "1".
C7_BoolLeniency ==
    (ParseDone /\ argType.T = "BoolTy") =>
        /\ parsed.status = "ok"
        /\ parsed.value.b = (Core(val) \in TrueTexts)

\* " true " has been parsed to true.
C7_Witness ==
    /\ ParseDone
    /\ argType.T = "BoolTy"
    /\ val = <<" ", "t", "r", "u", "e", " ">>
    /\ parsed.status = "ok"
    /\ parsed.value.b = TRUE

\* C9: statelessness: no call writes a package-level variable, so err still
\* holds what it held before the first call.
C9_Stateless == err = "nil"

\* C8: zero-output unpack: for a method that declares no outputs contractUnpack
\* returns an empty result and no error whatever the blob holds, and for a name
\* missing from the method table it returns the no-such-method error; in both
\* cases the decoder is never invoked.
C8_ZeroOutputUnpack ==
    (unpacked.status # "none") =>
        /\ (name \in DOMAIN methods /\ Len(methods[name]) = 0) =>
              /\ unpacked.status = "ok"
              /\ ~unpacked.isNil
              /\ unpacked.result = <<>>
              /\ unpacked.error = "nil"
              /\ decoderCalls = 0
        /\ (name \notin DOMAIN methods) =>
              /\ unpacked.status = "error"
              /\ unpacked.error = "The method does not exist"
              /\ decoderCalls = 0

\* A method without outputs has been unpacked from a blob that is not empty.
C8_Witness ==
    /\ unpacked.status = "ok"
    /\ name \in DOMAIN methods
    /\ methods[name] = <<>>
    /\ data # <<>>
    /\ unpacked.result = <<>>
    /\ decoderCalls = 0

\* C10: base-fee cache stability: once set the cache is never overwritten; it
\* is written only by a call made without a client while it is empty; and
\* every call that returns without error while the cache is set returns the
\* cached value.
C10_CacheStable ==
    [][/\ baseFeePerGas.set => baseFeePerGas' = baseFeePerGas
       /\ baseFeePerGas' # baseFeePerGas =>
             (lastOp' = "CurrentBaseFee" /\ ~client /\ ~baseFeePerGas.set)
       /\ (lastOp' = "CurrentBaseFee" /\ feeRet'.err = "nil" /\ baseFeePerGas'.set) =>
             feeRet'.fee = baseFeePerGas']_vars

\* A call with a client attached has returned the cached fee although the
\* configuration has changed since it was cached.
C10_Witness ==
    /\ lastOp = "CurrentBaseFee"
    /\ client
    /\ baseFeePerGas.set
    /\ config # [valid |-> TRUE, wei |-> baseFeePerGas.wei]
    /\ feeRet.err = "nil"
    /\ feeRet.fee = baseFeePerGas
====
